---- MODULE Spec2Model ----
(***************************************************************************)
(* Model of the upload / detection-aggregation service of main.py:         *)
(* get_current_user, create_upload_file with its asyncio.gather fan-out,   *)
(* call_aiornot_api, call_sightengine_api, get_exif_data,                  *)
(* convert_dms_to_degrees, serve_temp_image and auth_google_callback.      *)
(*                                                                         *)
(* Text values are sequences of one-character strings, so that             *)
(* str.capitalize, f-string concatenation and URL parsing are computed.    *)
(* Probabilities and confidences are fixed-point numbers in units of       *)
(* 1/Scale; coordinates are in arc-seconds (1/3600 degree).                *)
(***************************************************************************)
EXTENDS Integers, Sequences, FiniteSets, TLC

\* ------------------------------------------------------------- bounds

\* Number of POST /uploadfile/ requests the model lets arrive.
MaxRequests == 2

\* Half of the fixed-point scale: the probability 0.5 is Half/Scale.
Half == 2

Scale == 2 * Half

\* Largest degree, minute or second value of a GPS coordinate drawn.
MaxDms == 1

NONE == "None"

\* ------------------------------------------------------------- text

LowerCase ==
  << "a", "b", "c", "d", "e", "f", "g", "h", "i", "j", "k", "l", "m",
     "n", "o", "p", "q", "r", "s", "t", "u", "v", "w", "x", "y", "z" >>

UpperCase ==
  << "A", "B", "C", "D", "E", "F", "G", "H", "I", "J", "K", "L", "M",
     "N", "O", "P", "Q", "R", "S", "T", "U", "V", "W", "X", "Y", "Z" >>

IndexIn(c, alphabet) ==
  IF \E i \in 1..Len(alphabet) : alphabet[i] = c
  THEN CHOOSE i \in 1..Len(alphabet) : alphabet[i] = c
  ELSE 0

upper(c) == IF IndexIn(c, LowerCase) > 0 THEN UpperCase[IndexIn(c, LowerCase)] ELSE c

lower(c) == IF IndexIn(c, UpperCase) > 0 THEN LowerCase[IndexIn(c, UpperCase)] ELSE c

\* Mutant: the first character upper-cased, the others left as they are.
capitalize_first_only(s) ==
  [i \in 1..Len(s) |-> IF i = 1 THEN upper(s[i]) ELSE s[i]]

\* str.capitalize(): first character upper-cased, every other one lower-cased.
capitalize(s) ==
  [i \in 1..Len(s) |-> IF i = 1 THEN upper(s[i]) ELSE lower(s[i])]

Contains(s, c) == \E i \in 1..Len(s) : s[i] = c

StartsWith(s, prefix) ==
  /\ Len(s) >= Len(prefix)
  /\ SubSeq(s, 1, Len(prefix)) = prefix

\* "Error"
S_Error ==
  << "E", "r", "r", "o", "r" >>

\* "Error: "
S_ErrorColon ==
  << "E", "r", "r", "o", "r", ":", " " >>

\* "unknown"
S_unknown ==
  << "u", "n", "k", "n", "o", "w", "n" >>

\* "Unknown"
S_Unknown ==
  << "U", "n", "k", "n", "o", "w", "n" >>

\* "AI-Generated"
S_AIGenerated ==
  << "A", "I", "-", "G", "e", "n", "e", "r", "a", "t", "e", "d" >>

\* "Human-Made"
S_HumanMade ==
  << "H", "u", "m", "a", "n", "-", "M", "a", "d", "e" >>

\* "Unknown (Prob not found in 'type'/'ai_generated')"
S_UnknownProb ==
  << "U", "n", "k", "n", "o", "w", "n", " ", "(", "P", "r", "o", "b", " ",
     "n", "o", "t", " ", "f", "o", "u", "n", "d", " ", "i", "n", " ", "'",
     "t", "y", "p", "e", "'", "/", "'", "a", "i", "_", "g", "e", "n", "e",
     "r", "a", "t", "e", "d", "'", ")" >>

\* "Unknown (API response missing 'type' or 'ai_generated' within 'type')"
S_UnknownMissing ==
  << "U", "n", "k", "n", "o", "w", "n", " ", "(", "A", "P", "I", " ", "r",
     "e", "s", "p", "o", "n", "s", "e", " ", "m", "i", "s", "s", "i", "n",
     "g", " ", "'", "t", "y", "p", "e", "'", " ", "o", "r", " ", "'", "a",
     "i", "_", "g", "e", "n", "e", "r", "a", "t", "e", "d", "'", " ", "w",
     "i", "t", "h", "i", "n", " ", "'", "t", "y", "p", "e", "'", ")" >>

\* "N/A"
S_NotApplicable ==
  << "N", "/", "A" >>

\* ------------------------------------------------------------- JSON values

\* A confidence as it appears in a ProviderResult: a number n/Scale, the
\* string "N/A", or JSON null passed through.
Num(n) == [t |-> "number", n |-> n]

ConfNA == [t |-> "N/A", n |-> 0]

ConfNull == [t |-> "null", n |-> 0]

\* A text field of a JSON object: absent, null, or a string.
Absent == [t |-> "absent", s |-> <<>>]

Null == [t |-> "null", s |-> <<>>]

Str(s) == [t |-> "string", s |-> s]

\* ------------------------------------------------------------- exceptions

\* str(e) of an exception caught in a provider task, abstracted to the
\* name of its class (the library's message text is not part of main.py).
\* "ConnectionError"
S_ConnectionError ==
  << "C", "o", "n", "n", "e", "c", "t", "i", "o", "n", "E", "r", "r", "o",
     "r" >>

\* "HTTPError"
S_HTTPError ==
  << "H", "T", "T", "P", "E", "r", "r", "o", "r" >>

\* "JSONDecodeError"
S_JSONDecodeError ==
  << "J", "S", "O", "N", "D", "e", "c", "o", "d", "e", "E", "r", "r", "o",
     "r" >>

\* "TypeError"
S_TypeError ==
  << "T", "y", "p", "e", "E", "r", "r", "o", "r" >>

\* "AttributeError"
S_AttributeError ==
  << "A", "t", "t", "r", "i", "b", "u", "t", "e", "E", "r", "r", "o", "r" >>

str_e(kind) ==
  CASE kind = "ConnectionError" -> S_ConnectionError
    [] kind = "HTTPError" -> S_HTTPError
    [] kind = "JSONDecodeError" -> S_JSONDecodeError
    [] kind = "TypeError" -> S_TypeError
    [] OTHER -> S_AttributeError

\* A value computed inside a try block: either returned or an exception.
Returned(v) == [raised |-> FALSE, kind |-> NONE, value |-> v]

Raised(kind) == [raised |-> TRUE, kind |-> kind, value |-> NONE]

\* ------------------------------------------------------------- HTTP

\* requests.Response.raise_for_status(): HTTPError for 4xx and 5xx only.
raise_for_status(status) == status >= 400 /\ status < 600

\* ------------------------------------------------------------- AI or Not

\* What requests.post gives call_aiornot_api: an exception (exc), or a
\* response with a status and a body.  The body is malformed JSON, a JSON
\* array, or an object whose path report.ai_generated.{verdict, ai.confidence}
\* may be absent, null or present at each level.
AiResponse(exc, status, json, report, ai_generated, verdict, ai, confidence) ==
  [exc |-> exc, status |-> status, json |-> json, report |-> report,
   ai_generated |-> ai_generated, verdict |-> verdict, ai |-> ai,
   confidence |-> confidence]

\* api_response.get("report", {}).get("ai_generated", {}): "absent" stands
\* for the default {}, "null" for None (whose .get raises AttributeError).
aiornot_ai_generated(resp) ==
  IF resp.json # "object" THEN Raised("AttributeError")
  ELSE IF resp.report = "absent" THEN Returned("absent")
  ELSE IF resp.report = "null" THEN Raised("AttributeError")
  ELSE Returned(resp.ai_generated)

\* Mutant: subscripting instead of .get with a default, a missing key raises.
aiornot_verdict_strict(resp) ==
  IF resp.json # "object" \/ resp.report # "object" \/ resp.ai_generated # "object"
  THEN Raised("KeyError")
  ELSE IF resp.verdict.t = "absent" THEN Raised("KeyError")
  ELSE Returned(resp.verdict)

\* ....get("verdict", "unknown")
aiornot_verdict(resp) ==
  LET g == aiornot_ai_generated(resp) IN
  IF g.raised THEN g
  ELSE IF g.value = "absent" THEN Returned(Str(S_unknown))
  ELSE IF g.value = "null" THEN Raised("AttributeError")
  ELSE IF resp.verdict.t = "absent" THEN Returned(Str(S_unknown))
  ELSE Returned(resp.verdict)

\* ....get("ai", {}).get("confidence", "N/A")
aiornot_confidence(resp) ==
  LET g == aiornot_ai_generated(resp) IN
  IF g.raised THEN g
  ELSE IF g.value = "absent" THEN Returned(ConfNA)
  ELSE IF g.value = "null" THEN Raised("AttributeError")
  ELSE IF resp.ai = "absent" THEN Returned(ConfNA)
  ELSE IF resp.ai = "null" THEN Raised("AttributeError")
  ELSE IF resp.confidence.t = "absent" THEN Returned(ConfNA)
  ELSE Returned(resp.confidence)

ProviderResult(service, status, verdict, confidence) ==
  [service |-> service, status |-> status, verdict |-> verdict,
   confidence |-> confidence]

aiornot_except(kind) ==
  ProviderResult("AI or Not", "Failed", S_Error, Num(0))

\* The try block of call_aiornot_api, after requests.post returned or raised.
aiornot_try(resp) ==
  IF resp.exc THEN Raised("ConnectionError")
  ELSE IF raise_for_status(resp.status) THEN Raised("HTTPError")
  ELSE IF resp.json = "malformed" THEN Raised("JSONDecodeError")
  ELSE LET v == aiornot_verdict(resp)
           c == aiornot_confidence(resp) IN
       IF v.raised THEN v
       ELSE IF c.raised THEN c
       ELSE IF v.value.t # "string" THEN Raised("AttributeError")
       ELSE Returned(ProviderResult("AI or Not", "Success",
                                    capitalize(v.value.s), c.value))

\* Mutant: no except clause, the exception leaves the coroutine.
call_aiornot_api_no_except(resp) == aiornot_try(resp)

\* call_aiornot_api as its caller sees it: the dict it returns (from the
\* try block or from the except clause), or an exception that leaves it.
call_aiornot_api(resp) ==
  LET t == aiornot_try(resp) IN
  IF t.raised THEN Returned(aiornot_except(t.kind)) ELSE t

\* ------------------------------------------------------------- Sightengine

\* What requests.post gives call_sightengine_api.  The body is malformed
\* JSON, a falsy JSON value (null, {}), or an object whose "type" member is
\* absent, null or an object, and whose type.ai_generated is absent, null,
\* a number prob/Scale, or a string.
SeResponse(exc, status, json, type, ai_generated, prob) ==
  [exc |-> exc, status |-> status, json |-> json, type |-> type,
   ai_generated |-> ai_generated, prob |-> prob]

\* Mutant: prob >= 0.5
prob_at_or_above_threshold(prob) == 2 * prob >= Scale

\* prob > 0.5
prob_above_threshold(prob) == 2 * prob > Scale

\* The verdict and confidence for a probability that is not None.
sightengine_threshold(prob) ==
  IF prob_above_threshold(prob)
  THEN [verdict |-> S_AIGenerated, confidence |-> Num(prob)]
  ELSE [verdict |-> S_HumanMade, confidence |-> Num(Scale - prob)]

sightengine_except(kind) ==
  ProviderResult("Sightengine AI", "Failed", S_ErrorColon \o str_e(kind), Num(0))

sightengine_success(verdict, confidence) ==
  ProviderResult("Sightengine AI", "Success", verdict, confidence)

\* The try block of call_sightengine_api, after requests.post returned or raised.
sightengine_try(resp) ==
  IF resp.exc THEN Raised("ConnectionError")
  ELSE IF raise_for_status(resp.status) THEN Raised("HTTPError")
  ELSE IF resp.json = "malformed" THEN Raised("JSONDecodeError")
  ELSE IF resp.json = "falsy" \/ resp.type = "absent"
       THEN Returned(sightengine_success(S_UnknownMissing, Num(0)))
  ELSE IF resp.type = "null" THEN Raised("TypeError")
  ELSE IF resp.ai_generated = "absent"
       THEN Returned(sightengine_success(S_UnknownMissing, Num(0)))
  ELSE IF resp.ai_generated = "null"
       THEN Returned(sightengine_success(S_UnknownProb, Num(0)))
  ELSE IF resp.ai_generated = "string" THEN Raised("TypeError")
  ELSE LET r == sightengine_threshold(resp.prob) IN
       Returned(sightengine_success(r.verdict, r.confidence))

call_sightengine_api(resp) ==
  LET t == sightengine_try(resp) IN
  IF t.raised THEN Returned(sightengine_except(t.kind)) ELSE t

\* ------------------------------------------------------------- EXIF

\* convert_dms_to_degrees(dms, ref).  dms is a tuple (<<>> stands for a
\* missing value, which is falsy like the empty tuple), ref a reference
\* letter ("" when missing).  The coordinate is in arc-seconds.
NoCoordinate == [some |-> FALSE, v |-> 0]

Coordinate(v) == [some |-> TRUE, v |-> v]

\* Mutant: only a southern reference is negated.
convert_dms_to_degrees_south_only(dms, ref) ==
  IF dms # <<>> /\ ref # "" /\ Len(dms) = 3
  THEN LET decimal_degrees == 3600 * dms[1] + 60 * dms[2] + dms[3] IN
       IF ref = "S" THEN Coordinate(-decimal_degrees)
       ELSE Coordinate(decimal_degrees)
  ELSE NoCoordinate

convert_dms_to_degrees(dms, ref) ==
  IF dms # <<>> /\ ref # "" /\ Len(dms) = 3
  THEN LET decimal_degrees == 3600 * dms[1] + 60 * dms[2] + dms[3] IN
       IF ref \in {"S", "W"} THEN Coordinate(-decimal_degrees)
       ELSE Coordinate(decimal_degrees)
  ELSE NoCoordinate

\* Truthiness of a value returned by convert_dms_to_degrees: None and 0.0
\* are both falsy.
truthy(coord) == coord.some /\ coord.v # 0

\* The uploaded bytes, by what PIL finds in them: whether Image.open
\* decodes them, the EXIF tags, and the GPS IFD (tags 1..4).
Content(bytes, decodable, tags, gps) ==
  [bytes |-> bytes, decodable |-> decodable, tags |-> tags, gps |-> gps]

NoGps == [lat_ref |-> "", lat |-> <<>>, lon_ref |-> "", lon |-> <<>>]

Gps(lat_ref, lat, lon_ref, lon) ==
  [lat_ref |-> lat_ref, lat |-> lat, lon_ref |-> lon_ref, lon |-> lon]

\* The HTML fragment get_exif_data returns: its fixed leading text, the
\* "tag: value<br>" lines, and the coordinates of the map link (<<>> when
\* the fragment holds no link).
ExifReport(text, tags, map) == [text |-> text, tags |-> tags, map |-> map]

\* Mutant: an image without tags is reported like bytes that do not decode.
get_exif_data_one_placeholder(content) ==
  IF ~content.decodable \/ content.tags = <<>>
  THEN ExifReport("Could not read EXIF data.", <<>>, <<>>)
  ELSE LET lat == convert_dms_to_degrees(content.gps.lat, content.gps.lat_ref)
           lon == convert_dms_to_degrees(content.gps.lon, content.gps.lon_ref) IN
       ExifReport("<strong>EXIF Data:</strong><br>", content.tags,
                  IF content.gps # NoGps /\ truthy(lat) /\ truthy(lon)
                  THEN <<lat.v, lon.v>> ELSE <<>>)

get_exif_data(content) ==
  IF ~content.decodable
  THEN ExifReport("Could not read EXIF data.", <<>>, <<>>)
  ELSE IF content.tags = <<>>
  THEN ExifReport("<strong>Warning:</strong> No EXIF data detected in this image.<br>",
                  <<>>, <<>>)
  ELSE LET lat == convert_dms_to_degrees(content.gps.lat, content.gps.lat_ref)
           lon == convert_dms_to_degrees(content.gps.lon, content.gps.lon_ref) IN
       ExifReport("<strong>EXIF Data:</strong><br>", content.tags,
                  IF content.gps # NoGps /\ truthy(lat) /\ truthy(lon)
                  THEN <<lat.v, lon.v>> ELSE <<>>)

\* ------------------------------------------------------------- users and tokens

\* The column default of usage_reset_date: utcnow() + 30 days, evaluated
\* once, when models.py is imported.
UsageResetDefault == "import time + 30 days"

User(id, email, subscription_plan, monthly_usage_count, usage_reset_date) ==
  [id |-> id, email |-> email, subscription_plan |-> subscription_plan,
   monthly_usage_count |-> monthly_usage_count,
   usage_reset_date |-> usage_reset_date]

\* The credential a request carries: no token at all, or a token (cookie
\* or Bearer header) whose signature verifies or not and whose payload
\* holds a "sub" claim ("" when it holds none).
NoToken == [present |-> FALSE, verifies |-> FALSE, sub |-> ""]

Token(verifies, sub) == [present |-> TRUE, verifies |-> verifies, sub |-> sub]

\* get_user(db, email): the emails of the rows that match.
get_user(db, email) == {u \in db : u.email = email}

\* Mutant: the row of the email is not looked up.
get_current_user_ok_no_lookup(token, db) ==
  /\ token.present
  /\ token.verifies
  /\ token.sub # ""

\* get_current_user: TRUE when it returns a user, FALSE when it raises the
\* 401 credentials_exception.
get_current_user_ok(token, db) ==
  /\ token.present
  /\ token.verifies
  /\ token.sub # ""
  /\ get_user(db, token.sub) # {}

\* ------------------------------------------------------------- gather

\* The coroutine get_exif_data as asyncio.gather sees it: its try/except
\* turns every exception into a returned string.
exif_task(content) == Returned(get_exif_data(content))

\* await asyncio.gather(exif_data_task, aiornot_task, sightengine_task):
\* the results in argument order, or the exception of a task that raised
\* (<<>> stands for the await raising).
gather(exif, aiornot, sightengine) ==
  IF exif.raised \/ aiornot.raised \/ sightengine.raised THEN <<>>
  ELSE <<exif.value, aiornot.value, sightengine.value>>

\* Mutant: a provider that failed is left out of the list.
aggregate_omit_failed(aiornot_result, sightengine_result) ==
  SelectSeq(<<aiornot_result, sightengine_result>>, LAMBDA x : x.status # "Failed")

\* Mutant: the list is built in the other order.
aggregate_reversed(aiornot_result, sightengine_result) ==
  <<sightengine_result, aiornot_result>>

\* aggregated_results = [aiornot_result, sightengine_result]
aggregate(aiornot_result, sightengine_result) ==
  <<aiornot_result, sightengine_result>>

\* ------------------------------------------------------------- temporary files

\* str(uuid.uuid4()): one symbol, which holds none of "/", "?" and "_".
uuid_str(u) == <<ToString(u)>>

\* Mutant: the file is stored under the uploaded name alone.
unique_filename_no_uuid(u, filename) == filename

\* unique_filename = f"{uuid.uuid4()}_{file.filename}"
unique_filename(u, filename) == uuid_str(u) \o <<"_">> \o filename

\* open(os.path.join(TEMP_IMAGE_DIR, name), "wb") succeeds only when name
\* has no directory part: TEMP_IMAGE_DIR holds regular files only.
can_open(name) == ~Contains(name, "/")

\* "/temp_images/"
TempImagesPrefix == <<"/", "temp_images", "/">>

\* f"{base_url}/temp_images/{unique_filename}", from the path on.
public_image_url(name) == TempImagesPrefix \o name

\* The path component of a request target: what precedes the first "?".
url_path(target) ==
  IF Contains(target, "?")
  THEN SubSeq(target, 1, (CHOOSE i \in 1..Len(target) :
                            /\ target[i] = "?"
                            /\ \A j \in 1..(i - 1) : target[j] # "?") - 1)
  ELSE target

\* The route "/temp_images/{image_name}": the image_name of a path it
\* matches (one non-empty segment), <<>> when it does not match.
route_image_name(path) ==
  IF /\ StartsWith(path, TempImagesPrefix)
     /\ Len(path) > Len(TempImagesPrefix)
     /\ ~Contains(SubSeq(path, Len(TempImagesPrefix) + 1, Len(path)), "/")
  THEN SubSeq(path, Len(TempImagesPrefix) + 1, Len(path))
  ELSE <<>>

NoBytes == "(no body)"

\* GET target, against the directory dir (a set of [name, bytes]):
\* serve_temp_image for a matching route, 404 otherwise.
serve_temp_image(target, dir) ==
  LET image_name == route_image_name(url_path(target)) IN
  IF image_name # <<>> /\ \E f \in dir : f.name = image_name
  THEN [target |-> target, status |-> 200,
        body |-> (CHOOSE f \in dir : f.name = image_name).bytes]
  ELSE [target |-> target, status |-> 404, body |-> NoBytes]

\* f.write(content) on a file opened "wb": the file now holds content.
write_file(dir, name, bytes) ==
  {f \in dir : f.name # name} \cup {[name |-> name, bytes |-> bytes]}

\* ------------------------------------------------------------- inputs

Alice == "alice@example.com"

Tokens == {NoToken, Token(TRUE, Alice)}

Undecodable == Content("not an image", FALSE, <<>>, NoGps)

GpsImage ==
  Content("jpeg with gps", TRUE, <<"Make", "GPSInfo">>,
          Gps("N", <<40, 26, 46>>, "W", <<79, 58, 56>>))

Contents == {Undecodable, GpsImage}

\* A plain name, one with a query delimiter, one with a directory part.
Filenames == {<<"p">>, <<"p", "?", "q">>, <<"d", "/", "p">>}

\* requests.post raised (no response).
ConfAbsent == [t |-> "absent", n |-> 0]

AiRaises ==
  AiResponse(TRUE, 0, "malformed", "absent", "absent", Absent, "absent", ConfAbsent)

AiStatus(status) ==
  AiResponse(FALSE, status, "malformed", "absent", "absent", Absent, "absent",
             ConfAbsent)

AiBody(status, json, report, ai_generated, verdict, ai, confidence) ==
  AiResponse(FALSE, status, json, report, ai_generated, verdict, ai, confidence)

Verdicts == {<<"a", "i">>, <<"h", "u", "m", "a", "n">>, <<"A", "I">>, <<"h", "U", "M", "A", "N">>}

\* Every shape of answer of the AI or Not endpoint the model distinguishes.
AllAiResponses ==
  {AiRaises} \cup {AiStatus(s) : s \in {404, 503}}
  \cup {AiBody(s, j, "absent", "absent", Absent, "absent", ConfAbsent) :
          s \in {200, 300}, j \in {"malformed", "array"}}
  \cup {AiBody(s, "object", r, "absent", Absent, "absent", ConfAbsent) :
          s \in {200, 300}, r \in {"absent", "null"}}
  \cup {AiBody(s, "object", "object", g, Absent, "absent", ConfAbsent) :
          s \in {200, 300}, g \in {"absent", "null"}}
  \cup {AiBody(s, "object", "object", "object", v, a, ConfAbsent) :
          s \in {200, 300}, v \in {Absent, Null} \cup {Str(x) : x \in Verdicts},
          a \in {"absent", "null"}}
  \cup {AiBody(s, "object", "object", "object", v, "object", c) :
          s \in {200, 300}, v \in {Absent, Null} \cup {Str(x) : x \in Verdicts},
          c \in {ConfAbsent, ConfNull} \cup {Num(n) : n \in 0..Scale}}

\* The answers of AI or Not drawn during uploads: the call raises, or it
\* is answered 200 with a verdict and a confidence.
AiResponses ==
  {AiRaises,
   AiBody(200, "object", "object", "object", Str(<<"a", "i">>), "object", Num(Scale))}

SeRaises == SeResponse(TRUE, 0, "malformed", "absent", "absent", 0)

SeStatus(status) == SeResponse(FALSE, status, "malformed", "absent", "absent", 0)

SeBody(status, json, type, ai_generated, prob) ==
  SeResponse(FALSE, status, json, type, ai_generated, prob)

\* Every shape of answer of the Sightengine endpoint the model distinguishes.
AllSeResponses ==
  {SeRaises} \cup {SeStatus(s) : s \in {404, 503}}
  \cup {SeBody(s, j, "absent", "absent", 0) :
          s \in {200, 300}, j \in {"malformed", "falsy"}}
  \cup {SeBody(s, "object", t, "absent", 0) :
          s \in {200, 300}, t \in {"absent", "null"}}
  \cup {SeBody(s, "object", "object", g, 0) :
          s \in {200, 300}, g \in {"absent", "null", "string"}}
  \cup {SeBody(s, "object", "object", "number", p) :
          s \in {200, 300}, p \in 0..Scale}

\* The answers of Sightengine drawn during uploads: a 503, or a 200 with
\* a probability.
SeResponses ==
  {SeStatus(503),
   SeBody(200, "object", "object", "number", Scale)}

\* The process environment: whether each credential variable is set.
Env(aiornot_key, sightengine_user, sightengine_secret) ==
  [AIORNOT_API_KEY |-> aiornot_key, SIGHTENGINE_API_USER |-> sightengine_user,
   SIGHTENGINE_API_SECRET |-> sightengine_secret]

\* Every credential set, or one missing for each provider.
Envs == {Env(TRUE, TRUE, TRUE), Env(FALSE, TRUE, FALSE)}

\* ------------------------------------------------------------- state

VARIABLES
  env,       \* the credentials read at import (main.py lines 35-37)
  users,     \* the rows of the users table
  req,       \* the POST /uploadfile/ requests, in order of arrival
  ready,     \* the event loop's queue of runnable callbacks <<request, task>>
  blocked,   \* << <<request, provider>> >> while requests.post has not returned
  files,     \* TEMP_IMAGE_DIR: a set of [name, bytes]
  issued,    \* the values uuid.uuid4() has returned
  last_get,  \* the last GET of a temporary image and its answer
  probe,     \* a function applied alone (specifications SpecProviders, SpecExif)
  oauth      \* the last GET /auth/google/callback and its answer

vars == <<env, users, req, ready, blocked, files, issued, last_get, probe, oauth>>

Providers == {"aiornot", "sightengine"}

Tasks == {"exif", "aiornot", "sightengine"}

NoResponse ==
  [status |-> 0, filename |-> <<>>, aggregated_results |-> <<>>,
   exif_data |-> ExifReport("", <<>>, <<>>), public_image_url |-> <<>>,
   user_email |-> ""]

ErrorResponse(status) == [NoResponse EXCEPT !.status = status]

NoTaskResult == Raised("pending")

\* A request as it arrives: nothing has run.
NewRequest(token, content, filename) ==
  [token |-> token, content |-> content, filename |-> filename,
   pc |-> "queued", done |-> {},
   task |-> [t \in Tasks |-> NoTaskResult],
   posts |-> [p \in Providers |-> 0],
   http |-> [p \in Providers |-> <<>>],
   results |-> <<>>,
   response |-> NoResponse]

NoProbe == [ai_http |-> <<>>, ai_result |-> <<>>, se_http |-> <<>>, se_result |-> <<>>]

NoGet == [target |-> <<>>, status |-> 0, body |-> NoBytes]

NoCallback == [email |-> "", status |-> 0, cookie |-> NoToken]

Init ==
  /\ env \in Envs
  /\ users = {User(1, Alice, "free", 0, UsageResetDefault)}
  /\ req = <<>>
  /\ ready = <<>>
  /\ blocked = <<>>
  /\ files = {}
  /\ issued = {}
  /\ last_get = NoGet
  /\ oauth = NoCallback
  /\ probe = NoProbe

\* ------------------------------------------------------------- actions

\* Mutant: gather hands over as soon as one task has finished.
AllDone_first_completed(done) == done # {}

AllDone(done) == done = Tasks

\* What the event loop queues when a task of request r finishes: the
\* handler's continuation once gather has every result.
Wakeup(r, done) == IF AllDone(done) THEN << <<r, "resume">> >> ELSE <<>>

\* A POST /uploadfile/ arrives and its handling is queued on the loop.
Arrive(token, content, filename) ==
  /\ blocked = <<>>
  /\ Len(req) < MaxRequests
  /\ req' = Append(req, NewRequest(token, content, filename))
  /\ ready' = Append(ready, <<Len(req) + 1, "handler">>)
  /\ UNCHANGED <<env, users, blocked, files, issued, last_get, probe, oauth>>

\* create_upload_file up to its await of gather: the get_current_user
\* dependency, file.read(), and the three coroutines made into tasks.
RunHandler(r) ==
  /\ blocked = <<>>
  /\ ready # <<>>
  /\ Head(ready) = <<r, "handler">>
  /\ IF get_current_user_ok(req[r].token, users)
     THEN /\ req' = [req EXCEPT ![r].pc = "gathering"]
          /\ ready' = Tail(ready)
                        \o << <<r, "exif">>, <<r, "aiornot">>, <<r, "sightengine">> >>
     ELSE /\ req' = [req EXCEPT ![r].pc = "done",
                                ![r].response = ErrorResponse(401)]
          /\ ready' = Tail(ready)
  /\ UNCHANGED <<env, users, blocked, files, issued, last_get, probe, oauth>>

\* The task of get_exif_data runs to its end (it never awaits).
RunExif(r) ==
  /\ blocked = <<>>
  /\ ready # <<>>
  /\ Head(ready) = <<r, "exif">>
  /\ LET done == req[r].done \cup {"exif"} IN
     /\ req' = [req EXCEPT ![r].task["exif"] = exif_task(req[r].content),
                           ![r].done = done]
     /\ ready' = Tail(ready) \o Wakeup(r, done)
  /\ UNCHANGED <<env, users, blocked, files, issued, last_get, probe, oauth>>

\* A provider task starts and calls requests.post, which sends the request
\* and blocks the thread of the event loop until the answer.
Post(r, p) ==
  /\ blocked = <<>>
  /\ ready # <<>>
  /\ Head(ready) = <<r, p>>
  /\ p \in Providers
  /\ req' = [req EXCEPT ![r].posts[p] = @ + 1]
  /\ ready' = Tail(ready)
  /\ blocked' = << <<r, p>> >>
  /\ UNCHANGED <<env, users, files, issued, last_get, probe, oauth>>

\* Mutant: a request that raised is sent a second time.
AiornotReturns_retry(r, resp) ==
  /\ blocked = << <<r, "aiornot">> >>
  /\ IF resp.exc /\ req[r].posts["aiornot"] < 2
     THEN /\ req' = [req EXCEPT ![r].posts["aiornot"] = @ + 1]
          /\ UNCHANGED <<ready, blocked>>
     ELSE LET done == req[r].done \cup {"aiornot"} IN
          /\ req' = [req EXCEPT ![r].task["aiornot"] = call_aiornot_api(resp),
                                ![r].http["aiornot"] = <<resp>>,
                                ![r].done = done]
          /\ ready' = ready \o Wakeup(r, done)
          /\ blocked' = <<>>
  /\ UNCHANGED <<env, users, files, issued, last_get, probe, oauth>>

\* requests.post returns or raises in call_aiornot_api, which runs to its end.
AiornotReturns(r, resp) ==
  /\ blocked = << <<r, "aiornot">> >>
  /\ LET done == req[r].done \cup {"aiornot"} IN
     /\ req' = [req EXCEPT ![r].task["aiornot"] = call_aiornot_api(resp),
                           ![r].http["aiornot"] = <<resp>>,
                           ![r].done = done]
     /\ ready' = ready \o Wakeup(r, done)
  /\ blocked' = <<>>
  /\ UNCHANGED <<env, users, files, issued, last_get, probe, oauth>>

\* requests.post returns or raises in call_sightengine_api.
SightengineReturns(r, resp) ==
  /\ blocked = << <<r, "sightengine">> >>
  /\ LET done == req[r].done \cup {"sightengine"} IN
     /\ req' = [req EXCEPT ![r].task["sightengine"] = call_sightengine_api(resp),
                           ![r].http["sightengine"] = <<resp>>,
                           ![r].done = done]
     /\ ready' = ready \o Wakeup(r, done)
  /\ blocked' = <<>>
  /\ UNCHANGED <<env, users, files, issued, last_get, probe, oauth>>

\* uuid.uuid4(): a value it has not returned before.  The values are
\* opaque, so the model numbers them in the order they are drawn.
uuid4 == Cardinality(issued) + 1

\* Mutant: the AI or Not entry is kept at module level by the first upload
\* and reused by the later ones.
UploadResponse_shared(rq, results, name) ==
  [status |-> 200,
   filename |-> rq.filename,
   aggregated_results |->
     aggregate(IF req[1].task["aiornot"].raised THEN results[2]
               ELSE req[1].task["aiornot"].value,
               results[3]),
   exif_data |-> results[1],
   public_image_url |-> public_image_url(name),
   user_email |-> rq.token.sub]

\* The response of create_upload_file once the file is written.
UploadResponse(rq, results, name) ==
  [status |-> 200,
   filename |-> rq.filename,
   aggregated_results |-> aggregate(results[2], results[3]),
   exif_data |-> results[1],
   public_image_url |-> public_image_url(name),
   user_email |-> rq.token.sub]

\* Mutant: a completed upload is counted against the uploader's row.
Resume_counts_usage(r, u) ==
  /\ blocked = <<>>
  /\ ready # <<>>
  /\ Head(ready) = <<r, "resume">>
  /\ u = uuid4
  /\ ready' = Tail(ready)
  /\ LET rq == req[r]
         results == gather(rq.task["exif"], rq.task["aiornot"], rq.task["sightengine"])
         name == unique_filename(u, rq.filename) IN
     IF results = <<>>
     THEN /\ req' = [req EXCEPT ![r].pc = "done", ![r].response = ErrorResponse(500)]
          /\ UNCHANGED <<files, issued, users>>
     ELSE /\ issued' = issued \cup {u}
          /\ IF can_open(name)
             THEN /\ files' = write_file(files, name, rq.content.bytes)
                  /\ users' = {IF row.email = rq.token.sub
                               THEN [row EXCEPT !.monthly_usage_count = @ + 1]
                               ELSE row : row \in users}
                  /\ req' = [req EXCEPT ![r].pc = "done",
                                        ![r].results = results,
                                        ![r].response = UploadResponse(rq, results, name)]
             ELSE /\ files' = files
                  /\ users' = users
                  /\ req' = [req EXCEPT ![r].pc = "done",
                                        ![r].results = results,
                                        ![r].response = ErrorResponse(500)]
  /\ UNCHANGED <<env, blocked, last_get, probe, oauth>>

\* create_upload_file after gather: the results are unpacked, the bytes are
\* written under a fresh uuid4 name and the report is returned.  An
\* exception out of gather or out of open leaves the handler: the framework
\* answers 500.  (The file system is taken to accept every write into a
\* file it could open.)
Resume(r, u) ==
  /\ blocked = <<>>
  /\ ready # <<>>
  /\ Head(ready) = <<r, "resume">>
  /\ u = uuid4
  /\ ready' = Tail(ready)
  /\ LET rq == req[r]
         results == gather(rq.task["exif"], rq.task["aiornot"], rq.task["sightengine"])
         name == unique_filename(u, rq.filename) IN
     IF results = <<>>
     THEN /\ req' = [req EXCEPT ![r].pc = "done", ![r].response = ErrorResponse(500)]
          /\ UNCHANGED <<files, issued>>
     ELSE /\ issued' = issued \cup {u}
          /\ IF can_open(name)
             THEN /\ files' = write_file(files, name, rq.content.bytes)
                  /\ req' = [req EXCEPT ![r].pc = "done",
                                        ![r].results = results,
                                        ![r].response = UploadResponse(rq, results, name)]
             ELSE /\ files' = files
                  /\ req' = [req EXCEPT ![r].pc = "done",
                                        ![r].results = results,
                                        ![r].response = ErrorResponse(500)]
  /\ UNCHANGED <<env, users, blocked, last_get, probe, oauth>>

\* GET target, answered by the route /temp_images/{image_name}.
ServeTempImage(target) ==
  /\ blocked = <<>>
  /\ last_get' = serve_temp_image(target, files)
  /\ UNCHANGED <<env, users, req, ready, blocked, files, issued, probe, oauth>>

\* The targets a client fetches: the public URL of each report returned so
\* far.
GetTargets ==
  {req[r].response.public_image_url : r \in {i \in 1..Len(req) : req[i].response.status = 200}}

Next ==
  \/ \E token \in Tokens, content \in Contents, filename \in Filenames :
       Arrive(token, content, filename)
  \/ \E r \in 1..Len(req) : RunHandler(r)
  \/ \E r \in 1..Len(req) : RunExif(r)
  \/ \E r \in 1..Len(req), p \in Providers : Post(r, p)
  \/ \E r \in 1..Len(req), resp \in AiResponses : AiornotReturns(r, resp)
  \/ \E r \in 1..Len(req), resp \in SeResponses : SightengineReturns(r, resp)
  \/ \E r \in 1..Len(req), u \in {uuid4} : Resume(r, u)
  \/ \E target \in GetTargets : ServeTempImage(target)

Spec == Init /\ [][Next]_vars

\* ------------------------------------------------------------- the provider functions alone

\* The two provider functions on every shape of answer: the initial state
\* draws the answer requests.post gives each of them, and the steps apply
\* call_aiornot_api and then call_sightengine_api, in the order of their
\* tasks.
Probe(ai_resp, se_resp) ==
  [ai_http |-> <<ai_resp>>, ai_result |-> <<>>,
   se_http |-> <<se_resp>>, se_result |-> <<>>]

InitProviders ==
  /\ env \in Envs
  /\ users = {User(1, Alice, "free", 0, UsageResetDefault)}
  /\ req = <<>>
  /\ ready = <<>>
  /\ blocked = <<>>
  /\ files = {}
  /\ issued = {}
  /\ last_get = NoGet
  /\ oauth = NoCallback
  /\ probe \in {Probe(a, b) : a \in AllAiResponses, b \in AllSeResponses}

ProbeAiornot ==
  /\ probe.ai_result = <<>>
  /\ probe' = [probe EXCEPT !.ai_result = <<call_aiornot_api(probe.ai_http[1])>>]
  /\ UNCHANGED <<env, users, req, ready, blocked, files, issued, last_get, oauth>>

ProbeSightengine ==
  /\ probe.ai_result # <<>>
  /\ probe.se_result = <<>>
  /\ probe' = [probe EXCEPT !.se_result = <<call_sightengine_api(probe.se_http[1])>>]
  /\ UNCHANGED <<env, users, req, ready, blocked, files, issued, last_get, oauth>>

NextProviders == ProbeAiornot \/ ProbeSightengine

SpecProviders == InitProviders /\ [][NextProviders]_vars

\* ------------------------------------------------------------- the EXIF functions alone

\* An image that decodes and holds no EXIF tag.
Tagless == Content("jpeg without exif", TRUE, <<>>, NoGps)

\* An image with EXIF tags and no GPS IFD.
NoGpsImage == Content("jpeg without gps", TRUE, <<"Make">>, NoGps)

\* The values of a GPS coordinate tag: missing, a tuple of two numbers, or
\* a degrees/minutes/seconds triple.
DmsValues ==
  {<<>>, <<1, 1>>} \cup {<<d, m, s>> : d \in 0..MaxDms, m \in 0..MaxDms, s \in 0..MaxDms}

LatRefs == {"N", "S", ""}

LonRefs == {"E", "W", ""}

\* Every shape of uploaded bytes the model distinguishes.
AllContents ==
  {Undecodable, Tagless, NoGpsImage}
  \cup {Content("jpeg with gps", TRUE, <<"Make", "GPSInfo">>, Gps(lat_ref, lat, lon_ref, lon)) :
          lat_ref \in LatRefs, lat \in DmsValues, lon_ref \in LonRefs, lon \in DmsValues}

\* The EXIF functions on every shape of bytes: the initial state draws the
\* bytes, and the steps apply convert_dms_to_degrees to the two coordinate
\* tags and get_exif_data to the bytes.
ExifProbe(content) == [content |-> content, lat |-> <<>>, lon |-> <<>>, exif |-> <<>>]

InitExif ==
  /\ env = Env(TRUE, TRUE, TRUE)
  /\ users = {User(1, Alice, "free", 0, UsageResetDefault)}
  /\ req = <<>>
  /\ ready = <<>>
  /\ blocked = <<>>
  /\ files = {}
  /\ issued = {}
  /\ last_get = NoGet
  /\ oauth = NoCallback
  /\ probe \in {ExifProbe(c) : c \in AllContents}

ProbeConvert ==
  /\ probe.lat = <<>>
  /\ probe' = [probe EXCEPT
                 !.lat = <<convert_dms_to_degrees(probe.content.gps.lat,
                                                  probe.content.gps.lat_ref)>>,
                 !.lon = <<convert_dms_to_degrees(probe.content.gps.lon,
                                                  probe.content.gps.lon_ref)>>]
  /\ UNCHANGED <<env, users, req, ready, blocked, files, issued, last_get, oauth>>

ProbeExif ==
  /\ probe.exif = <<>>
  /\ probe' = [probe EXCEPT !.exif = <<get_exif_data(probe.content)>>]
  /\ UNCHANGED <<env, users, req, ready, blocked, files, issued, last_get, oauth>>

NextExif == ProbeConvert \/ ProbeExif

SpecExif == InitExif /\ [][NextExif]_vars

\* ------------------------------------------------------------- sign-in and uploads

Bob == "bob@example.com"

\* The credentials a client may present: none, a token whose signature
\* does not verify, a token without "sub", a token for an email without a
\* row (until that email signs in), and a token for an email with a row.
AllTokens == {NoToken, Token(FALSE, Alice), Token(TRUE, ""), Token(TRUE, Bob), Token(TRUE, Alice)}

\* What a GET /auth/google/callback brings: whether the query holds a code,
\* whether Google exchanges it, and the email Google returns ("" for none).
Callback(code, exchange_ok, email) ==
  [code |-> code, exchange_ok |-> exchange_ok, email |-> email]

Callbacks ==
  {Callback(FALSE, FALSE, ""), Callback(TRUE, FALSE, ""), Callback(TRUE, TRUE, ""),
   Callback(TRUE, TRUE, Alice), Callback(TRUE, TRUE, Bob)}

\* create_access_token(data={"sub": email}): a token that verifies.
create_access_token(email) == Token(TRUE, email)

\* Mutant: the row is inserted without looking for one first.
AuthGoogleCallback_no_lookup(code, exchange_ok, email) ==
  /\ blocked = <<>>
  /\ IF ~code \/ ~exchange_ok \/ email = ""
     THEN /\ oauth' = [email |-> "", status |-> 400, cookie |-> NoToken]
          /\ users' = users
     ELSE /\ users' = users \cup {User(Cardinality(users) + 1, email, "free", 0, UsageResetDefault)}
          /\ oauth' = [email |-> email, status |-> 302,
                       cookie |-> create_access_token(email)]
  /\ UNCHANGED <<env, req, ready, blocked, files, issued, last_get, probe>>

\* auth_google_callback, from the answer of Google on (no await follows):
\* 400 without a code, when the exchange fails or without an email;
\* otherwise the row of the email is looked up, inserted with the next id
\* when there is none, and the answer is a redirect carrying the cookie.
AuthGoogleCallback(code, exchange_ok, email) ==
  /\ blocked = <<>>
  /\ IF ~code \/ ~exchange_ok \/ email = ""
     THEN /\ oauth' = [email |-> "", status |-> 400, cookie |-> NoToken]
          /\ users' = users
     ELSE /\ users' = IF get_user(users, email) = {}
                      THEN users \cup {User(Cardinality(users) + 1, email, "free", 0, UsageResetDefault)}
                      ELSE users
          /\ oauth' = [email |-> email, status |-> 302,
                       cookie |-> create_access_token(email)]
  /\ UNCHANGED <<env, req, ready, blocked, files, issued, last_get, probe>>

InitAuth ==
  /\ env = Env(TRUE, TRUE, TRUE)
  /\ users = {User(1, Alice, "free", 0, UsageResetDefault)}
  /\ req = <<>>
  /\ ready = <<>>
  /\ blocked = <<>>
  /\ files = {}
  /\ issued = {}
  /\ last_get = NoGet
  /\ oauth = NoCallback
  /\ probe = NoProbe

\* Sign-ins and uploads of one image under one name, with every credential.
NextAuth ==
  \/ \E q \in Callbacks : AuthGoogleCallback(q.code, q.exchange_ok, q.email)
  \/ \E token \in AllTokens : Arrive(token, GpsImage, <<"p">>)
  \/ \E r \in 1..Len(req) : RunHandler(r)
  \/ \E r \in 1..Len(req) : RunExif(r)
  \/ \E r \in 1..Len(req), p \in Providers : Post(r, p)
  \/ \E r \in 1..Len(req), resp \in AiResponses : AiornotReturns(r, resp)
  \/ \E r \in 1..Len(req), resp \in SeResponses : SightengineReturns(r, resp)
  \/ \E r \in 1..Len(req), u \in {uuid4} : Resume(r, u)

SpecAuth == InitAuth /\ [][NextAuth]_vars

\* ------------------------------------------------------------- properties

Requests == 1..Len(req)

\* The request passed get_current_user.
Authenticated(r) == get_current_user_ok(req[r].token, users)

\* The upload was answered with its report.
Completed(r) == req[r].pc = "done" /\ req[r].response.status = 200

\* The handler has ended, with a report or with an error.
Ended(r) == req[r].pc = "done"

Is2xx(status) == status >= 200 /\ status < 300

\* The provider's call of request r raised or was answered non-2xx.
CallFailed(r, p) ==
  /\ req[r].http[p] # <<>>
  /\ req[r].http[p][1].exc \/ ~Is2xx(req[r].http[p][1].status)

ServiceOf(p) == IF p = "aiornot" THEN "AI or Not" ELSE "Sightengine AI"

EntriesOf(r, service) ==
  {i \in 1..Len(req[r].response.aggregated_results) :
     req[r].response.aggregated_results[i].service = service}

\* C1: the aggregated_results of every report returned holds exactly one
\* entry for "AI or Not" and exactly one for "Sightengine AI", whatever the
\* outcome of the two provider calls: a failing provider has its entry.
C1_OneEntryPerProvider ==
  \A r \in Requests :
    Completed(r) =>
      /\ Len(req[r].response.aggregated_results) = 2
      /\ \A p \in Providers : Cardinality(EntriesOf(r, ServiceOf(p))) = 1

\* C1 witness: a report was returned although both provider calls failed.
C1_Witness ==
  \E r \in Requests :
    /\ Completed(r)
    /\ \A p \in Providers : CallFailed(r, p)
    /\ \A i \in 1..2 : req[r].response.aggregated_results[i].status = "Failed"

\* C2: in every report returned the first entry is the result of the
\* AI or Not task and the second the result of the Sightengine task.
C2_FixedProviderOrder ==
  \A r \in Requests :
    Completed(r) =>
      /\ req[r].response.aggregated_results[1].service = "AI or Not"
      /\ req[r].response.aggregated_results[1] = req[r].task["aiornot"].value
      /\ req[r].response.aggregated_results[2].service = "Sightengine AI"
      /\ req[r].response.aggregated_results[2] = req[r].task["sightengine"].value

\* C2 witness: a report whose first provider failed and whose second
\* succeeded, next to one where it is the other way round.
C2_Witness ==
  \E r1, r2 \in Requests :
    /\ Completed(r1) /\ Completed(r2)
    /\ req[r1].response.aggregated_results[1].status = "Failed"
    /\ req[r1].response.aggregated_results[2].status = "Success"
    /\ req[r2].response.aggregated_results[1].status = "Success"
    /\ req[r2].response.aggregated_results[2].status = "Failed"

\* C3 as the specification states it: whenever the HTTP call of a provider
\* raises or is answered with a non-2xx status, the ProviderResult of that
\* provider has status "Failed" and verdict exactly "Error".
C3_FailedErrorExactly ==
  \A r \in Requests : \A p \in Providers :
    CallFailed(r, p) =>
      /\ ~req[r].task[p].raised
      /\ req[r].task[p].value.status = "Failed"
      /\ req[r].task[p].value.verdict = S_Error

\* The credentials of provider p are all set.
Configured(p) ==
  IF p = "aiornot" THEN env.AIORNOT_API_KEY
  ELSE env.SIGHTENGINE_API_USER /\ env.SIGHTENGINE_API_SECRET

\* C4 as the specification states it: a provider whose credentials are
\* missing is sent no HTTP request, and its ProviderResult is
\* status "NotConfigured", verdict "N/A", confidence 0.
C4_NotConfiguredNoCall ==
  \A r \in Requests : \A p \in Providers :
    ~Configured(p) =>
      /\ req[r].posts[p] = 0
      /\ p \in req[r].done =>
           /\ req[r].task[p].value.status = "NotConfigured"
           /\ req[r].task[p].value.verdict = S_NotApplicable
           /\ req[r].task[p].value.confidence = Num(0)

\* C5: a failing AI or Not call stays inside its task.  Every authenticated
\* upload whose handler has ended ran all three tasks, sent the Sightengine
\* request and got all three results from gather; and any two such uploads
\* of the same bytes whose Sightengine calls were answered alike hold the
\* same Sightengine result and the same EXIF report, whatever AI or Not did.
C5_FailureStaysInItsTask ==
  /\ \A r \in Requests :
       Ended(r) /\ Authenticated(r) =>
         /\ req[r].done = Tasks
         /\ req[r].posts["sightengine"] = 1
         /\ Len(req[r].results) = 3
  /\ \A r1, r2 \in Requests :
       /\ Ended(r1) /\ Authenticated(r1)
       /\ Ended(r2) /\ Authenticated(r2)
       /\ req[r1].content = req[r2].content
       /\ req[r1].http["sightengine"] = req[r2].http["sightengine"]
       => /\ Len(req[r1].results) = 3 /\ Len(req[r2].results) = 3
          /\ req[r1].results[3] = req[r2].results[3]
          /\ req[r1].results[1] = req[r2].results[1]

\* C5 witness: two uploads of the same bytes with the same Sightengine
\* answer, the AI or Not call failing for one and succeeding for the other.
C5_Witness ==
  \E r1, r2 \in Requests :
    /\ Ended(r1) /\ Ended(r2)
    /\ Authenticated(r1) /\ Authenticated(r2)
    /\ req[r1].content = req[r2].content
    /\ req[r1].http["sightengine"] = req[r2].http["sightengine"]
    /\ CallFailed(r1, "aiornot")
    /\ ~CallFailed(r2, "aiornot")
    /\ Len(req[r1].results) = 3 /\ Len(req[r2].results) = 3
    /\ req[r1].results[2].status = "Failed"
    /\ req[r2].results[2].status = "Success"
    /\ req[r1].results[3] = req[r2].results[3]

\* call_sightengine_api was applied to a 2xx answer whose
\* type.ai_generated is a number.
ProbedProbability ==
  /\ probe.se_result # <<>>
  /\ ~probe.se_http[1].exc
  /\ Is2xx(probe.se_http[1].status)
  /\ probe.se_http[1].json = "object"
  /\ probe.se_http[1].type = "object"
  /\ probe.se_http[1].ai_generated = "number"

\* C6: for a probability p at type.ai_generated of a 2xx answer,
\* call_sightengine_api returns verdict "AI-Generated" with confidence p
\* when p > 0.5 and "Human-Made" with confidence 1 - p otherwise; p = 0.5
\* gives "Human-Made" with confidence 0.5.
C6_Thresholding ==
  ProbedProbability =>
    LET p == probe.se_http[1].prob
        result == probe.se_result[1] IN
    /\ ~result.raised
    /\ result.value.status = "Success"
    /\ p > Half => /\ result.value.verdict = S_AIGenerated
                   /\ result.value.confidence = Num(p)
    /\ p <= Half => /\ result.value.verdict = S_HumanMade
                    /\ result.value.confidence = Num(Scale - p)
    /\ p = Half => /\ result.value.verdict = S_HumanMade
                   /\ result.value.confidence = Num(Half)

\* C6 witness: the probability 0.5 was classified.
C6_Witness ==
  /\ ProbedProbability
  /\ probe.se_http[1].prob = Half
  /\ probe.se_result[1].value.verdict = S_HumanMade

\* C7 as the specification states it: every upload whose bytes were read
\* ends with a success response.
C7_AlwaysSuccess ==
  \A r \in Requests :
    Ended(r) /\ Authenticated(r) => req[r].response.status = 200

\* call_aiornot_api was applied to an answer with a 2xx status.
AiProbed2xx ==
  /\ probe.ai_result # <<>>
  /\ ~probe.ai_http[1].exc
  /\ Is2xx(probe.ai_http[1].status)

\* call_sightengine_api was applied to an answer with a 2xx status.
SeProbed2xx ==
  /\ probe.se_result # <<>>
  /\ ~probe.se_http[1].exc
  /\ Is2xx(probe.se_http[1].status)

\* The body is JSON without a string at report.ai_generated.verdict.
AiLacksVerdict ==
  \/ probe.ai_http[1].json = "array"
  \/ /\ probe.ai_http[1].json = "object"
     /\ \/ probe.ai_http[1].report # "object"
        \/ probe.ai_http[1].ai_generated # "object"
        \/ probe.ai_http[1].verdict.t # "string"

\* The body is JSON without a value at type.ai_generated.
SeLacksProbability ==
  \/ probe.se_http[1].json = "falsy"
  \/ /\ probe.se_http[1].json = "object"
     /\ \/ probe.se_http[1].type # "object"
        \/ probe.se_http[1].ai_generated \in {"absent", "null"}

FailedError(result) ==
  /\ ~result.raised
  /\ result.value.status = "Failed"
  /\ result.value.verdict = S_Error

AiKeyAbsent ==
  /\ probe.ai_http[1].json = "object"
  /\ \/ probe.ai_http[1].report = "absent"
     \/ /\ probe.ai_http[1].report = "object"
        /\ probe.ai_http[1].ai_generated = "absent"
     \/ /\ probe.ai_http[1].report = "object"
        /\ probe.ai_http[1].ai_generated = "object"
        /\ probe.ai_http[1].verdict.t = "absent"
        /\ probe.ai_http[1].ai # "null"

\* The body is empty, or the key type or type.ai_generated is missing from
\* it, or type.ai_generated is null.
SeKeyAbsent ==
  \/ probe.se_http[1].json = "falsy"
  \/ /\ probe.se_http[1].json = "object"
     /\ probe.se_http[1].type = "absent"
  \/ /\ probe.se_http[1].json = "object"
     /\ probe.se_http[1].type = "object"
     /\ probe.se_http[1].ai_generated \in {"absent", "null"}

StoredName(r) ==
  SubSeq(req[r].response.public_image_url, Len(TempImagesPrefix) + 1,
         Len(req[r].response.public_image_url))

\* C9: at every moment each completed upload has its own file in the
\* temporary directory, holding that upload's bytes; no two completed
\* uploads share a name, and the directory holds exactly one file per
\* completed upload.  (uuid4 is taken to return a fresh value each time.)
C9_AppendOnlyCollisionFree ==
  /\ \A r \in Requests :
       Completed(r) =>
         \E f \in files : f.name = StoredName(r) /\ f.bytes = req[r].content.bytes
  /\ \A r1, r2 \in Requests :
       Completed(r1) /\ Completed(r2) /\ r1 # r2 => StoredName(r1) # StoredName(r2)
  /\ Cardinality(files) = Cardinality({r \in Requests : Completed(r)})

\* C9 witness: two completed uploads of the same bytes under the same
\* filename, and two files.
C9_Witness ==
  \E r1, r2 \in Requests :
    /\ r1 # r2
    /\ Completed(r1) /\ Completed(r2)
    /\ req[r1].content = req[r2].content
    /\ req[r1].filename = req[r2].filename
    /\ Cardinality(files) = 2

\* C10 as the specification states it: a GET of the URL a report carries
\* is answered with the stored bytes of that upload.
C10_PublicUrlServes ==
  \A r \in Requests :
    Completed(r) /\ last_get.target = req[r].response.public_image_url =>
      /\ last_get.status = 200
      /\ last_get.body = req[r].content.bytes

\* The tag holds a degrees/minutes/seconds triple and its reference letter.
WellFormed(dms, ref) == Len(dms) = 3 /\ ref # ""

\* C11 as the specification states it: the report of get_exif_data holds a
\* map link for every image whose GPS block holds well-formed latitude and
\* longitude triples with their reference letters, whatever their values,
\* and holds none when the GPS block is absent or a conversion fails.
C11_MapLinkIffBothConvert ==
  probe.exif # <<>> =>
    LET gps == probe.content.gps
        report == probe.exif[1] IN
    /\ /\ probe.content.decodable
       /\ probe.content.tags # <<>>
       /\ WellFormed(gps.lat, gps.lat_ref)
       /\ WellFormed(gps.lon, gps.lon_ref)
       => report.map # <<>>
    /\ \/ gps = NoGps
       \/ ~WellFormed(gps.lat, gps.lat_ref)
       \/ ~WellFormed(gps.lon, gps.lon_ref)
       => report.map = <<>>

\* The bytes do not decode, or decode to an image without EXIF tags.
NoMetadata(content) == ~content.decodable \/ content.tags = <<>>

\* C12 as the specification states it: bytes that do not decode and an
\* image without EXIF tags get one and the same report.
C12_SamePlaceholder ==
  probe.exif # <<>> /\ NoMetadata(probe.content) =>
    /\ probe.exif[1] = get_exif_data(Undecodable)
    /\ probe.exif[1] = get_exif_data(Tagless)

\* C12 amended: get_exif_data returns a fixed string in each of the two
\* cases, with no tag line and no map link: "Could not read EXIF data." for
\* bytes that do not decode, and the "No EXIF data detected" warning for an
\* image without tags.  The two strings differ.
C12_TwoFixedPlaceholders ==
  probe.exif # <<>> =>
    /\ ~probe.content.decodable =>
         probe.exif[1] = ExifReport("Could not read EXIF data.", <<>>, <<>>)
    /\ probe.content.decodable /\ probe.content.tags = <<>> =>
         /\ probe.exif[1] =
              ExifReport("<strong>Warning:</strong> No EXIF data detected in this image.<br>",
                         <<>>, <<>>)
         /\ probe.exif[1].text # "Could not read EXIF data."

\* C12 witness: get_exif_data answered an image that decodes and has no tags.
C12_Witness ==
  /\ probe.exif # <<>>
  /\ probe.content = Tagless
  /\ probe.exif[1].text = "<strong>Warning:</strong> No EXIF data detected in this image.<br>"

\* What C17 states of one conversion: a triple with a reference letter
\* gives 3600*degrees + 60*minutes + seconds arc-seconds, negated exactly
\* for the references S and W; anything else gives no coordinate.
DmsConverted(dms, ref, result) ==
  IF Len(dms) = 3 /\ ref # ""
  THEN /\ result.some
       /\ ref \in {"S", "W"} => result.v = -(3600 * dms[1] + 60 * dms[2] + dms[3])
       /\ ref \notin {"S", "W"} => result.v = 3600 * dms[1] + 60 * dms[2] + dms[3]
  ELSE ~result.some

\* C17: convert_dms_to_degrees returns degrees + minutes/60 + seconds/3600
\* (in arc-seconds: 3600*degrees + 60*minutes + seconds) for every triple
\* with a reference letter, negated exactly when the reference is S or W,
\* and no coordinate when the triple or the reference is missing or the
\* tuple does not have three elements.
C17_DmsToDegrees ==
  probe.lat # <<>> =>
    /\ DmsConverted(probe.content.gps.lat, probe.content.gps.lat_ref, probe.lat[1])
    /\ DmsConverted(probe.content.gps.lon, probe.content.gps.lon_ref, probe.lon[1])

\* C17 witness: a western longitude was converted to a negative coordinate
\* and a northern latitude to a positive one; next to it, a tuple of two
\* numbers gave no coordinate.
C17_Witness ==
  /\ probe.lat # <<>>
  /\ probe.content.gps.lon_ref = "W"
  /\ probe.content.gps.lon = <<1, 0, 1>>
  /\ probe.lon[1] = Coordinate(-3601)
  /\ \/ /\ probe.content.gps.lat_ref = "N"
        /\ probe.content.gps.lat = <<0, 1, 1>>
        /\ probe.lat[1] = Coordinate(61)
     \/ /\ probe.content.gps.lat = <<1, 1>>
        /\ probe.lat[1] = NoCoordinate

\* call_aiornot_api was applied to a 2xx answer whose body holds a string
\* at report.ai_generated.verdict and a value at
\* report.ai_generated.ai.confidence.
AiCarriesVerdict ==
  /\ AiProbed2xx
  /\ probe.ai_http[1].json = "object"
  /\ probe.ai_http[1].report = "object"
  /\ probe.ai_http[1].ai_generated = "object"
  /\ probe.ai_http[1].verdict.t = "string"
  /\ probe.ai_http[1].ai = "object"
  /\ probe.ai_http[1].confidence.t # "absent"

IsLetterOf(c, alphabet) == \E i \in 1..Len(alphabet) : alphabet[i] = c

\* out is v with its capitalization normalized: the same letters, no
\* lower-case letter first and no upper-case letter after it.
Normalized(v, out) ==
  /\ Len(out) = Len(v)
  /\ \A i \in 1..Len(v) : lower(out[i]) = lower(v[i])
  /\ Len(out) > 0 => ~IsLetterOf(out[1], LowerCase)
  /\ \A i \in 2..Len(out) : ~IsLetterOf(out[i], UpperCase)

\* C18: for a 2xx answer carrying verdict v and confidence c,
\* call_aiornot_api returns status "Success", v with its first letter in
\* upper case and the rest in lower case, and c unchanged.
C18_VerdictPassthrough ==
  AiCarriesVerdict =>
    LET result == probe.ai_result[1] IN
    /\ ~result.raised
    /\ result.value.service = "AI or Not"
    /\ result.value.status = "Success"
    /\ Normalized(probe.ai_http[1].verdict.s, result.value.verdict)
    /\ result.value.confidence = probe.ai_http[1].confidence

\* C18 witness: the verdict "hUMAN" with confidence 1/Scale came back as
\* "Human" with that confidence.
C18_Witness ==
  /\ AiCarriesVerdict
  /\ probe.ai_http[1].verdict.s = <<"h", "U", "M", "A", "N">>
  /\ probe.ai_http[1].confidence = Num(1)
  /\ probe.ai_result[1].value.status = "Success"
  /\ probe.ai_result[1].value.verdict = <<"H", "u", "m", "a", "n">>
  /\ probe.ai_result[1].value.confidence = Num(1)

\* C13: requests are isolated.  The filename, aggregated_results, exif_data
\* and user_email of every report are those computed from the request's
\* own filename, bytes, token and the answers to its own two provider
\* calls, whatever other uploads ran before or in between; hence two
\* uploads of the same bytes whose provider calls were answered alike carry
\* the same aggregated_results.
C13_RequestsIsolated ==
  /\ \A r \in Requests :
       Completed(r) =>
         /\ req[r].response.filename = req[r].filename
         /\ req[r].response.user_email = req[r].token.sub
         /\ req[r].response.exif_data = get_exif_data(req[r].content)
         /\ req[r].response.aggregated_results =
              << call_aiornot_api(req[r].http["aiornot"][1]).value,
                 call_sightengine_api(req[r].http["sightengine"][1]).value >>
  /\ \A r1, r2 \in Requests :
       /\ Completed(r1) /\ Completed(r2)
       /\ req[r1].content.bytes = req[r2].content.bytes
       /\ req[r1].http = req[r2].http
       => req[r1].response.aggregated_results = req[r2].response.aggregated_results

\* C13 witness: two reports of the same bytes under different filenames,
\* whose provider calls were answered alike (AI or Not failing), carry the
\* same aggregated_results and each its own filename.
C13_Witness ==
  \E r1, r2 \in Requests :
    /\ r1 # r2
    /\ Completed(r1) /\ Completed(r2)
    /\ req[r1].content.bytes = req[r2].content.bytes
    /\ req[r1].filename # req[r2].filename
    /\ req[r1].http = req[r2].http
    /\ CallFailed(r1, "aiornot")
    /\ req[r1].response.aggregated_results = req[r2].response.aggregated_results
    /\ req[r1].response.filename # req[r2].response.filename

\* The request of provider p of upload r has been sent and its answer has
\* not come back.
Awaiting(r, p) == req[r].posts[p] > 0 /\ p \notin req[r].done

\* Both provider calls of upload r are in flight at once.
Overlap(r) == Awaiting(r, "aiornot") /\ Awaiting(r, "sightengine")

\* No upload ever has both provider calls in flight.
CallsSerialized == \A r \in Requests : ~Overlap(r)

\* C14 as the specification states it: the Sightengine request of an upload
\* does not wait for the answer of AI or Not; it is sent while the
\* AI or Not request of that upload is awaiting its answer.
C14_CallsOverlap ==
  [][\A r \in Requests :
       req[r].posts["sightengine"] = 0 /\ req'[r].posts["sightengine"] = 1
         => Awaiting(r, "aiornot")]_vars

\* C15: create_upload_file answers, and writes the temporary file, only
\* once the EXIF task and both provider tasks of the upload have finished:
\* every step that sets the response of an authenticated upload or adds a
\* file starts from a state where all three tasks of that upload are done,
\* also when one of them failed.
C15_ResponseAfterAllTasks ==
  [][/\ \A r \in Requests :
          req'[r].response # req[r].response /\ req'[r].response.status # 401
            => req[r].done = Tasks /\ req[r].pc = "gathering"
     /\ files' # files =>
          \E r \in Requests :
            /\ req[r].done = Tasks
            /\ req[r].pc = "gathering"
            /\ req'[r].response.status = 200]_vars

\* C15 witness: a report was returned after the AI or Not call had raised;
\* the EXIF task and the Sightengine task ran all the same.
C15_Witness ==
  \E r \in Requests :
    /\ Completed(r)
    /\ req[r].http["aiornot"] # <<>>
    /\ req[r].http["aiornot"][1].exc
    /\ req[r].done = Tasks
    /\ req[r].http["sightengine"] # <<>>
    /\ \E f \in files : f.name = StoredName(r)

\* C16: no retries.  No provider is ever sent more than one request for
\* one upload, and once the handler of an authenticated upload has ended
\* each provider was sent exactly one, also when the call raised or was
\* answered non-2xx.
C16_NoRetries ==
  \A r \in Requests : \A p \in Providers :
    /\ req[r].posts[p] <= 1
    /\ CallFailed(r, p) => req[r].posts[p] = 1
    /\ Ended(r) /\ Authenticated(r) => req[r].posts[p] = 1

\* C16 witness: an upload has ended with both provider calls failed, one
\* request sent to each.
C16_Witness ==
  \E r \in Requests :
    /\ Ended(r) /\ Authenticated(r)
    /\ req[r].http["aiornot"][1].exc
    /\ req[r].http["sightengine"][1].status = 503
    /\ \A p \in Providers : req[r].posts[p] = 1

\* The credential of request r is one of the four kinds get_current_user
\* rejects: no token, a token that does not verify, a token without "sub",
\* or a "sub" for which the users table holds no row.
Unauthenticated(r) ==
  \/ ~req[r].token.present
  \/ ~req[r].token.verifies
  \/ req[r].token.sub = ""
  \/ \A u \in users : u.email # req[r].token.sub

\* The handling of request r has run.
Handled(r) == req[r].pc # "queued"

\* C19: an upload whose credential is missing, does not verify, holds no
\* "sub" or names no existing user is answered 401; and an upload answered
\* 401 has started no task, sent no provider request and written no file
\* (the directory holds files of completed uploads only).
C19_UploadGated ==
  /\ \A r \in Requests :
       /\ Handled(r) /\ Unauthenticated(r) => req[r].response.status = 401
       /\ req[r].response.status = 401 =>
            /\ req[r].pc = "done"
            /\ req[r].done = {}
            /\ \A p \in Providers : req[r].posts[p] = 0 /\ req[r].http[p] = <<>>
            /\ \A t \in Tasks : \A i \in 1..Len(ready) : ready[i] # <<r, t>>
  /\ \A f \in files : \E r \in Requests : Completed(r) /\ f.name = StoredName(r)
  /\ Cardinality(files) <= Cardinality({r \in Requests : req[r].response.status = 200})

\* C19 witness: an upload with a verified token for an email without a row
\* and an upload without any token were both answered 401, and nothing was
\* sent or written.
C19_Witness ==
  \E r1, r2 \in Requests :
    /\ req[r1].token = Token(TRUE, Bob)
    /\ get_user(users, Bob) = {}
    /\ req[r1].response.status = 401
    /\ req[r2].token = NoToken
    /\ req[r2].response.status = 401
    /\ \A p \in Providers : req[r1].posts[p] = 0 /\ req[r2].posts[p] = 0
    /\ files = {}

\* No two rows of the users table hold the same email.
OneRowPerEmail == \A u, v \in users : u.email = v.email => u = v

\* C20: the users table never holds two rows with one email, and every step
\* changes it by at most one insertion: a callback for an email that has a
\* row leaves the table as it is, a callback for a new email adds exactly
\* one row, with subscription_plan "free" and monthly_usage_count 0, and
\* leaves the other rows as they are.
C20_OneRowPerEmail ==
  /\ []OneRowPerEmail
  /\ [][/\ oauth' # oauth /\ oauth'.status = 302 /\ get_user(users, oauth'.email) # {}
          => users' = users
        /\ oauth' # oauth /\ oauth'.status = 302 /\ get_user(users, oauth'.email) = {}
          => \E row \in users' :
               /\ row \notin users
               /\ users' = users \cup {row}
               /\ row.email = oauth'.email
               /\ row.subscription_plan = "free"
               /\ row.monthly_usage_count = 0
        /\ users' # users
          => /\ oauth'.status = 302
             /\ get_user(users, oauth'.email) = {}
             /\ Cardinality(users') = Cardinality(users) + 1]_vars

\* C20 witness: after a first sign-in of a new email and a later callback
\* for an email that had a row, the table holds one row for each.
C20_Witness ==
  /\ oauth.status = 302
  /\ oauth.email = Alice
  /\ oauth.cookie = Token(TRUE, Alice)
  /\ users = {User(1, Alice, "free", 0, UsageResetDefault), User(2, Bob, "free", 0, UsageResetDefault)}

\* The step belongs to an upload: a request arrives or one of its parts runs.
UploadStep ==
  \/ req' # req
  \/ ready' # ready
  \/ blocked' # blocked
  \/ files' # files
  \/ issued' # issued

\* The uploads of the user with this email that were answered with a report.
UploadsOf(email) == {r \in Requests : Completed(r) /\ req[r].token.sub = email}

====
